---- MODULE Spec2Model ----
(***************************************************************************)
(* Model of github_backup.py: one run of App.main.  The run reads the API  *)
(* token, fetches the paginated repository catalog, creates the container  *)
(* directory and then clones or updates every repository in turn.          *)
(*                                                                         *)
(* Strings that only need an order (repository names, descriptions) are    *)
(* encoded as integers whose order is the strings' order; strings whose    *)
(* characters matter (the lines of `git branch -r`) are sequences of       *)
(* one-character strings.  Filesystem paths are sequences of path          *)
(* components, <<>> being the root directory.                              *)
(*                                                                         *)
(* Spec is a whole run against a remote with well-formed names, with each  *)
(* call of the runner taken as one step.  RunnerSpec follows one call of   *)
(* _run_system_cmd_nb tick by tick, together with its child process.       *)
(* TraversalSpec is a whole run against a remote that also serves short    *)
(* names of the form "../<n>".                                             *)
(***************************************************************************)
EXTENDS Integers, Sequences, FiniteSets, TLC

\* ------------------------------------------------------------------ bounds
MaxRepos == 2      \* repository names are 1..MaxRepos
MaxPages == 2      \* the remote serves at most this many non-empty pages
PerPage == 1       \* per_page, the size of a full page (100 in the program)
MaxDescr == 1      \* values of the extra "description" field: 1..MaxDescr

Names == 1..MaxRepos

\* A short name need not be a single path component: the hostile name for n
\* stands for the string "../<n>".  Hostile names are negative, so that they
\* order before every other name, as "." orders before letters and digits.
HostileName(n) == n - (MaxRepos + 1)
HostileNames == { HostileName(n) : n \in Names }
AllNames == Names \cup HostileNames

\* ----------------------------------------------------------------- strings
OriginPrefix == <<" ", " ", "o", "r", "i", "g", "i", "n">>
HeadPattern == <<"o", "r", "i", "g", "i", "n", "/", "H", "E", "A", "D">>

\* Lines that `git branch -r` writes, each ending in a newline.
HeadLine == OriginPrefix \o <<"/", "H", "E", "A", "D", " ", "-", ">", " ">>
                         \o <<"o", "r", "i", "g", "i", "n", "/", "m", "\n">>
MasterLine == OriginPrefix \o <<"/", "m", "\n">>

\* What a successful `git branch -r` writes.
BranchOutputs == { <<HeadLine, MasterLine>> }

IsSpace(c) == c \in {" ", "\n", "\t", "\r"}

\* str.rstrip(): drop trailing whitespace.
RECURSIVE rstrip(_)
rstrip(s) ==
    IF s = <<>> THEN <<>>
    ELSE IF IsSpace(s[Len(s)]) THEN rstrip(SubSeq(s, 1, Len(s) - 1))
    ELSE s

\* s[n:] of Python.
SliceFrom(s, n) == SubSeq(s, n + 1, Len(s))

\* `sub in s` of Python.
Contains(sub, s) ==
    \E i \in 1..(Len(s) + 1) :
        /\ i + Len(sub) - 1 <= Len(s)
        /\ SubSeq(s, i, i + Len(sub) - 1) = sub

\* ------------------------------------------------------------ JSON records
\* One element of the decoded catalog.  A repository record is a dict with
\* the keys "name" and "full_name" and possibly "description"; a key whose
\* value is 0 is absent from the dict.  "full_name" is the owner-qualified
\* name "<org>/<name>", which orders like the name.  A unicode element is a
\* key of a response body that was a JSON object instead of an array.
KeyOrder == <<"description", "full_name", "name">>
DescrVals == 0..MaxDescr

Record(n, d) == [type |-> "dict", name |-> n, full_name |-> n, description |-> d]
MessageKey == [type |-> "unicode", name |-> 0, full_name |-> 0, description |-> 0]

Records == { Record(n, d) : n \in Names, d \in DescrVals }
HostileRecords == { Record(n, 0) : n \in HostileNames }

Keys(a) == { k \in {"description", "full_name", "name"} : a[k] # 0 }
Rank(k) == CHOOSE i \in 1..Len(KeyOrder) : KeyOrder[i] = k

cmp(x, y) == IF x < y THEN -1 ELSE IF x > y THEN 1 ELSE 0

\* characterize() of CPython 2's dictobject.c: the rank of the smallest key
\* of a whose value differs in b (or is missing there), 0 if there is none.
characterize(a, b) ==
    LET diff == { k \in Keys(a) : k \notin Keys(b) \/ a[k] # b[k] }
    IN  IF diff = {} THEN 0
        ELSE Rank(CHOOSE k \in diff : \A j \in diff : Rank(k) <= Rank(j))

\* dict_compare() of CPython 2: by length, then by the smallest differing
\* key, then by that key's values.
dict_compare(a, b) ==
    IF Cardinality(Keys(a)) < Cardinality(Keys(b)) THEN -1
    ELSE IF Cardinality(Keys(a)) > Cardinality(Keys(b)) THEN 1
    ELSE LET adiff == characterize(a, b)
             bdiff == characterize(b, a)
         IN  IF adiff = 0 THEN 0
             ELSE IF bdiff # 0 /\ cmp(adiff, bdiff) # 0 THEN cmp(adiff, bdiff)
             ELSE cmp(a[KeyOrder[adiff]], b[KeyOrder[bdiff]])

\* cmp() of Python 2 on catalog elements: objects of different types order
\* by type name ("dict" < "unicode").
py_cmp(a, b) ==
    IF a.type = "dict" /\ b.type = "dict" THEN dict_compare(a, b)
    ELSE IF a.type = b.type THEN 0
    ELSE IF a.type = "dict" THEN -1 ELSE 1

\* sorted(repos_list): a stable sort by py_cmp.
InsertSorted(t, x) ==
    LET k == Cardinality({ i \in 1..Len(t) : py_cmp(t[i], x) <= 0 })
    IN  SubSeq(t, 1, k) \o <<x>> \o SubSeq(t, k + 1, Len(t))

RECURSIVE sorted(_)
sorted(s) ==
    IF s = <<>> THEN <<>>
    ELSE InsertSorted(sorted(SubSeq(s, 1, Len(s) - 1)), s[Len(s)])

\* --------------------------------------------------------------- filesystem
Root == <<>>
ContainerPaths == { <<0>>, <<1>> }

\* The path component "..".
ParentDir == -1

\* The components of a short name used as a relative path.
Components(name) ==
    IF name \in HostileNames THEN <<ParentDir, name + (MaxRepos + 1)>> ELSE <<name>>

\* The directory a path names once the system has resolved its ".." components.
RECURSIVE normpath(_)
normpath(path) ==
    IF path = <<>> THEN <<>>
    ELSE LET front == normpath(SubSeq(path, 1, Len(path) - 1))
             last == path[Len(path)]
         IN  IF last # ParentDir THEN Append(front, last)
             ELSE IF front = <<>> THEN <<>>
             ELSE SubSeq(front, 1, Len(front) - 1)

\* repo_path = local_repodir + "/" + repo_name, as the directory it names.
repo_path_of(container, repo_name) == normpath(container \o Components(repo_name))

\* os.path.basename(path), as a relative path.
basename(path) == <<path[Len(path)]>>

\* The directory a relative path names from the working directory.
Resolve(wd, rel) == wd \o rel

\* Credential files: [exists, dir_mode, file_mode]; modes are the st_mode
\* permission bits (0700 = 448, 0750 = 488, 0400 = 256, 0440 = 288, 0404 = 260).
\* readable: whether open() and read() of the file succeed.
TokenFiles ==
    [exists : BOOLEAN, dir_mode : {448, 488}, file_mode : {256, 288, 260},
     readable : BOOLEAN]

\* perms & 0077 != 0
GroupOrOther_OtherOnly(perms) == perms % 8 # 0

GroupOrOther(perms) == perms % 64 # 0

\* ------------------------------------------------------------------- remote
VARIABLE remote     \* the records of the organization's repositories

\* The pages of k records the remote can serve: records of distinct
\* repositories, none of which it has served before.
RECURSIVE PagesOfLen(_, _)
PagesOfLen(k, served) ==
    IF k = 0 THEN { <<>> }
    ELSE UNION { { <<r>> \o p : p \in PagesOfLen(k - 1, served \cup {r.name}) } :
                 r \in { x \in remote : x.name \notin served } }

ServedNames(ps) ==
    UNION { { ps[i].page[j].name : j \in 1..Len(ps[i].page) } : i \in 1..Len(ps) }

\* The answers to one GET: a transport failure, or a status with a body that
\* is a JSON array of records, a JSON object, or not JSON at all.
Response(transport, status, json, page) ==
    [transport |-> transport, status |-> status, json |-> json, page |-> page]

\* The remote paginates: after a page with fewer than PerPage records the
\* catalog is exhausted and only the empty page follows.
Exhausted(ps) ==
    /\ ps # <<>>
    /\ ps[Len(ps)].json = "array"
    /\ Len(ps[Len(ps)].page) < PerPage

\* The remote answers 200 with a JSON object at most once in a run.
Responses(n, ps) ==
    { Response(TRUE, 0, "none", <<>>) }
    \cup { Response(FALSE, st, "garbage", <<>>) : st \in {200, 404} }
    \cup { Response(FALSE, 404, "object", <<>>) }
    \cup { Response(FALSE, 200, "array", <<>>) }
    \cup IF n > MaxPages THEN {}
         ELSE (IF \A i \in 1..Len(ps) : ps[i].json = "array"
               THEN { Response(FALSE, 200, "object", <<>>) } ELSE {})
              \cup (IF Exhausted(ps) THEN {}
                    ELSE { Response(FALSE, 200, "array", p) :
                           p \in UNION { PagesOfLen(k, ServedNames(ps)) : k \in 1..PerPage } })

\* json.loads(response): the decoded value, as the list that
\* `repos_all += repos_page` extends repos_all by (the keys of a dict).
json_loads(resp) ==
    IF resp.json = "array" THEN resp.page ELSE <<MessageKey>>

\* The GET of page n as logged in `requests`: the query string's page and
\* per_page, the header sent, and how the remote answered.
Request(n, resp) ==
    [page |-> n, per_page |-> PerPage, headers |-> "authorization",
     transport |-> resp.transport, status |-> resp.status, json |-> resp.json]

\* page_number += 1
NextPage_Same(n) == n

NextPage(n) == n + 1

\* repos_all += repos_page
Accumulate_Overwrite(all, page) == page

Accumulate(all, page) == all \o page

\* -------------------------------------------------------------------- state
VARIABLES
    pc,             \* where the run is: "start", "fetch", "backups", "loop",
                    \* "clone", "list", "update", "exit"
    dry_run,        \* args.dry_run
    token_file,     \* the credential file found at args.token_file
    local_repodir,  \* os.path.abspath(self.local_repodir)
    dirs,           \* the directories that exist
    cwd,            \* the process working directory
    page_number,    \* _get_org_repos: next page to request
    requests,       \* the GETs issued: page number and how the remote answered
    pages,          \* _get_org_repos: the responses received, in request order
    repos_all,      \* _get_org_repos: records accumulated / run: repos_list
    queue,          \* _run_backups: sorted(repos_list), the list the loop visits
    repo_idx,       \* _run_backups: position of the loop in queue
    all_branches,   \* _pull_all_branches: the lines the runner returned
    branch_idx,     \* _pull_all_branches: position of the loop in all_branches
    cmds,           \* the runner calls made for the repository in hand:
                    \* command, directory, child started or not, returncode
    dispatched,     \* names handed to _clone_repo_local / _pull_all_branches
    outcome,        \* per name: "Initial", "Cloned", "Updated", "Failed"
    errors,         \* names logged by "error updating repo=..."
    sigint,         \* an operator interrupt was raised during a synchronization
    exc,            \* type of the exception that ended the run, or "none"
    fatal_msg,      \* what main logged before sys.exit(1), or "none"
    exit_status,    \* the process exit status once pc = "exit"
    rpc,            \* _run_system_cmd_nb: where one call of the runner is
    stdoutctl,      \* _run_system_cmd_nb: 'log' or 'return'
    child,          \* the child process: its script of writes, how far it
                    \* got, whether it has exited, its exit status
    stdout_pipe,    \* lines written to proc.stdout and not yet read
    stderr_pipe,    \* lines written to proc.stderr and not yet read
    rtn_lines,      \* _run_system_cmd_nb: the lines captured so far
    rtn             \* what the call returned

vars == << pc, dry_run, token_file, local_repodir, dirs, cwd, page_number, requests,
           pages, repos_all, queue, repo_idx, all_branches, branch_idx, cmds,
           dispatched, outcome, errors, sigint, exc, fatal_msg, exit_status,
           rpc, stdoutctl, child, stdout_pipe, stderr_pipe, rtn_lines, rtn, remote >>

config == << dry_run, token_file, local_repodir, sigint, remote >>
fetch == << page_number, requests, pages, repos_all >>
fs == << dirs, cwd >>
sync == << queue, repo_idx, all_branches, branch_idx, cmds, dispatched, outcome, errors >>
runner == << rpc, stdoutctl, child, stdout_pipe, stderr_pipe, rtn_lines, rtn >>

\* The filesystems a run can start in: the container directory is missing,
\* or exists with working copies of some of the repositories.
InitialDirs(container) ==
    { {Root} } \cup
    { {Root, container} \cup { container \o <<n>> : n \in present } :
      present \in SUBSET Names }

\* No call of the runner is followed step by step.
NoCall ==
    /\ rpc = "idle"
    /\ stdoutctl = "log"
    /\ child = [script |-> <<>>, next |-> 1, exited |-> FALSE, returncode |-> 0]
    /\ stdout_pipe = <<>>
    /\ stderr_pipe = <<>>
    /\ rtn_lines = <<>>
    /\ rtn = [kind |-> "unset", lines |-> <<>>]

Init ==
    /\ pc = "start"
    /\ remote = Records
    /\ dry_run \in BOOLEAN
    /\ token_file \in TokenFiles
    /\ local_repodir \in ContainerPaths
    /\ dirs \in InitialDirs(local_repodir)
    /\ cwd = Root
    /\ page_number = 1
    /\ requests = <<>>
    /\ pages = <<>>
    /\ repos_all = <<>>
    /\ queue = <<>>
    /\ repo_idx = 1
    /\ all_branches = <<>>
    /\ branch_idx = 1
    /\ cmds = <<>>
    /\ dispatched = <<>>
    /\ outcome = [n \in AllNames |-> "Initial"]
    /\ errors = <<>>
    /\ sigint = FALSE
    /\ exc = "none"
    /\ fatal_msg = "none"
    /\ exit_status = 0
    /\ NoCall

\* ------------------------------------------------------------ process exit
\* An exception of type t with message msg reaches main: IOError and GBError
\* are logged and become sys.exit(1); any other type is uncaught, and the
\* interpreter prints a traceback and exits with status 1.
main(t, msg) ==
    /\ pc' = "exit"
    /\ exc' = t
    /\ fatal_msg' = IF t \in {"IOError", "GBError"} THEN msg ELSE "none"
    /\ exit_status' = 1

\* ------------------------------------------------------------- credential
\* run, up to the call of _get_org_repos: read the API token.
GetToken ==
    /\ pc = "start"
    /\ UNCHANGED << runner, config, fetch, fs, sync >>
    /\ IF ~token_file.exists
       THEN main("IOError", "missing file")
       ELSE IF GroupOrOther(token_file.dir_mode)
       THEN main("IOError", "bad permissions mode on directory")
       ELSE IF GroupOrOther(token_file.file_mode)
       THEN main("IOError", "bad permissions mode on file")
       ELSE IF ~token_file.readable
       THEN main("UnboundLocalError", "local variable 'tf' referenced before assignment")
       ELSE /\ pc' = "fetch"
            /\ UNCHANGED << exc, fatal_msg, exit_status >>

\* ---------------------------------------------------------------- catalog
\* One iteration of the while loop of _get_org_repos.
FetchPage ==
    /\ pc = "fetch"
    /\ \E resp \in Responses(page_number, pages) :
        /\ requests' = Append(requests, Request(page_number, resp))
        /\ pages' = Append(pages, resp)
        /\ IF resp.transport
           THEN /\ main("GBError", "error getting repos list from github")
                /\ UNCHANGED << page_number, repos_all >>
           ELSE IF resp.json = "garbage"
           THEN /\ main("ValueError", "No JSON object could be decoded")
                /\ UNCHANGED << page_number, repos_all >>
           ELSE IF resp.status # 200
           THEN /\ main("GBError", "error getting repos list from github")
                /\ UNCHANGED << page_number, repos_all >>
           ELSE IF resp.json = "array" /\ resp.page = <<>>
           THEN /\ pc' = "backups"
                /\ UNCHANGED << page_number, repos_all, exc, fatal_msg, exit_status >>
           ELSE /\ repos_all' = Accumulate(repos_all, json_loads(resp))
                /\ page_number' = NextPage(page_number)
                /\ UNCHANGED << pc, exc, fatal_msg, exit_status >>
    /\ UNCHANGED << runner, config, fs, sync >>

\* ------------------------------------------------------------ orchestrator
\* _run_backups up to the for loop: create the container directory, sort.
MakeContainer ==
    /\ pc = "backups"
    /\ UNCHANGED << runner, config, page_number, requests, cwd, repo_idx, all_branches,
                    branch_idx, cmds, dispatched, outcome, errors >>
    /\ \E created \in BOOLEAN :
       IF local_repodir \in dirs \/ created
       THEN /\ pc' = "loop"
            /\ dirs' = dirs \cup {local_repodir}
            /\ queue' = sorted(repos_all)
            \* repos_list is not read again once sorted() has copied it
            /\ repos_all' = <<>>
            /\ pages' = <<>>
            /\ UNCHANGED << exc, fatal_msg, exit_status >>
       ELSE \* os.makedirs raised
            /\ main("IOError", "cannot create local_repodir")
            /\ UNCHANGED << dirs, queue, repos_all, pages >>

\* The for loop is exhausted: _run_backups and run return, the process exits.
Finish ==
    /\ pc = "loop"
    /\ repo_idx > Len(queue)
    /\ pc' = "exit"
    /\ UNCHANGED << runner, config, fetch, fs, sync, exc, fatal_msg, exit_status >>

\* The loop moves on to the next repository.
NextRepo ==
    /\ pc' = "loop"
    /\ repo_idx' = repo_idx + 1

\* except Exception: log the repository's failure, let the loop continue.
ExceptHandler_Break(name) ==
    /\ errors' = Append(errors, name)
    /\ pc' = "exit"
    /\ UNCHANGED << repo_idx, exc, fatal_msg, exit_status >>

ExceptHandler_Propagate(name) ==
    /\ main("OSError", "error updating repo")
    /\ UNCHANGED << repo_idx, errors >>

ExceptHandler(name) ==
    /\ errors' = Append(errors, name)
    /\ NextRepo
    /\ UNCHANGED << exc, fatal_msg, exit_status >>

\* The synchronization of `name` raises an exception.
Failed(name) ==
    /\ outcome' = [outcome EXCEPT ![name] = "Failed"]
    /\ ExceptHandler(name)

\* The synchronization of `name` returns normally.
Returned(name, how) ==
    /\ outcome' = [outcome EXCEPT ![name] = how]
    /\ errors' = errors
    /\ NextRepo
    /\ UNCHANGED << exc, fatal_msg, exit_status >>

\* except KeyboardInterrupt: raise IOError, "CTRL-C received, aborting"
KeyboardInterruptHandler_Skip ==
    /\ errors' = Append(errors, queue[repo_idx].name)
    /\ NextRepo
    /\ UNCHANGED << exc, fatal_msg, exit_status >>

KeyboardInterruptHandler ==
    /\ main("IOError", "CTRL-C received, aborting")
    /\ UNCHANGED << repo_idx, errors >>

\* The loop body up to the command of the callee: pick the clone or the
\* update path by os.path.exists(repo_path) and enter the callee's directory.
Dispatch ==
    /\ pc = "loop"
    /\ repo_idx <= Len(queue)
    /\ UNCHANGED << runner, config, fetch, dirs, queue >>
    /\ LET repo == queue[repo_idx] IN
       IF repo.type # "dict"
       THEN /\ main("TypeError", "string indices must be integers")
            /\ UNCHANGED << cwd, repo_idx, all_branches, branch_idx, cmds, dispatched,
                            outcome, errors >>
       ELSE LET repo_path == repo_path_of(local_repodir, repo.name) IN
            /\ dispatched' = Append(dispatched, repo.name)
            /\ cmds' = <<>>
            /\ all_branches' = <<>>
            /\ branch_idx' = 1
            /\ IF repo_path \notin dirs
               THEN \* _clone_repo_local: os.chdir(os.path.basename(repo_path))
                    LET target == Resolve(cwd, basename(repo_path)) IN
                    IF target \in dirs
                    THEN /\ cwd' = target
                         /\ pc' = "clone"
                         /\ UNCHANGED << repo_idx, outcome, errors,
                                         exc, fatal_msg, exit_status >>
                    ELSE /\ Failed(repo.name)
                         /\ cwd' = cwd
               ELSE \* _pull_all_branches: os.chdir(repo_path)
                    /\ cwd' = repo_path
                    /\ pc' = "list"
                    /\ UNCHANGED << repo_idx, outcome, errors,
                                    exc, fatal_msg, exit_status >>

\* ------------------------------------------------------------ the runner
\* What a child leaves in proc.returncode.
ReturnCodes == {0, 128}

\* What the polling loop of _run_system_cmd_nb returns in 'return' mode for a
\* child that writes the lines `written` and exits: the loop appends one
\* readline().rstrip() per tick while proc.poll() is None and reads nothing
\* after the exit, so it returns the first k lines; a readline() at end of
\* file (every line read, exit not yet seen) appends an empty string.
RunnerOutcomes(written) ==
    { [i \in 1..k |-> rstrip(written[i])] : k \in 0..Len(written) }
    \cup { [i \in 1..Len(written) |-> rstrip(written[i])] \o << <<>> >> }

\* _run_system_cmd_nb(cmd): log the command; unless dry_run, start the child
\* (started = FALSE: subprocess.Popen raised) and poll it until it exits.
\* pulled: the command got as far as running `git pull`.
run_system_cmd_nb(op, arg, started, rc, pulled) ==
    cmds' = Append(cmds, [op |-> op, arg |-> arg, cwd |-> cwd,
                          started |-> ~dry_run /\ started,
                          returncode |-> IF ~dry_run /\ started THEN rc ELSE 0,
                          pulled |-> ~dry_run /\ started /\ pulled])

\* The ways one call of the runner can go: (started, rc).
RunnerCalls ==
    IF dry_run THEN { <<FALSE, 0>> }
    ELSE { <<FALSE, 0>> } \cup { <<TRUE, rc>> : rc \in ReturnCodes }

\* --------------------------------------------------------------- clone path
\* _clone_repo_local from the clone command on: run it, enter the new clone.
RunClone ==
    /\ pc = "clone"
    /\ UNCHANGED << runner, config, fetch, queue, all_branches, branch_idx, dispatched >>
    /\ LET repo == queue[repo_idx]
           repo_path == repo_path_of(local_repodir, repo.name)
       IN
       \E call \in RunnerCalls :
          LET started == call[1]
              rc == call[2]
          IN
          /\ run_system_cmd_nb("clone", <<repo.full_name>>, started, rc, FALSE)
          /\ dirs' = IF ~dry_run /\ started /\ rc = 0
                     THEN dirs \cup {cwd \o basename(repo_path)} ELSE dirs
          /\ IF ~dry_run /\ ~started
             THEN \* subprocess.Popen raised OSError
                  Failed(repo.name) /\ cwd' = cwd
             ELSE IF repo_path \in dirs'
             THEN Returned(repo.name, "Cloned") /\ cwd' = repo_path
             ELSE \* os.chdir(repo_path) raised OSError
                  Failed(repo.name) /\ cwd' = cwd

\* -------------------------------------------------------------- update path
\* _pull_all_branches: `git branch -r` in capture mode.
ListBranches ==
    /\ pc = "list"
    /\ UNCHANGED << runner, config, fetch, fs, queue, branch_idx, dispatched >>
    /\ LET repo == queue[repo_idx] IN
       \E call \in RunnerCalls :
          LET started == call[1]
              rc == call[2]
          IN
          /\ run_system_cmd_nb("branch -r", <<>>, started, rc, FALSE)
          /\ IF dry_run
             THEN \* the runner returned None: `for curr_branch in None`
                  Failed(repo.name) /\ UNCHANGED all_branches
             ELSE IF ~started
             THEN Failed(repo.name) /\ UNCHANGED all_branches
             ELSE \E written \in (IF rc = 0 THEN BranchOutputs ELSE { <<>> }) :
                  \E lines \in RunnerOutcomes(written) :
                     /\ all_branches' = lines
                     /\ pc' = "update"
                     /\ UNCHANGED << repo_idx, outcome, errors, exc, fatal_msg,
                                     exit_status >>

\* The shell command "git branch %s && git pull": `git branch <name>` creates
\* the local branch and fails with status 128 when it already exists; `&&`
\* runs `git pull` only after a `git branch` that succeeded.
BranchAndPull(existed, pull_rc) ==
    IF existed THEN [returncode |-> 128, pulled |-> FALSE]
    ELSE [returncode |-> pull_rc, pulled |-> TRUE]

\* The test of the loop of _pull_all_branches that skips a line.
SkipBranch(curr_branch) ==
    LET cbranch == SliceFrom(curr_branch, Len(OriginPrefix))
    IN  Contains(HeadPattern, cbranch)

\* One iteration of the loop of _pull_all_branches.
UpdateBranch ==
    /\ pc = "update"
    /\ branch_idx <= Len(all_branches)
    /\ UNCHANGED << runner, config, fetch, fs, queue, all_branches, dispatched >>
    /\ LET repo == queue[repo_idx]
           curr_branch == all_branches[branch_idx]
       IN
       IF SkipBranch(curr_branch)
       THEN /\ branch_idx' = branch_idx + 1
            /\ UNCHANGED << pc, repo_idx, cmds, outcome, errors,
                            exc, fatal_msg, exit_status >>
       ELSE \E call \in RunnerCalls, existed \in BOOLEAN :
               LET sh == BranchAndPull(existed, call[2]) IN
               /\ run_system_cmd_nb("branch && pull", curr_branch, call[1],
                                     sh.returncode, sh.pulled)
               /\ IF ~dry_run /\ ~call[1]
                  THEN Failed(repo.name) /\ UNCHANGED branch_idx
                  ELSE /\ branch_idx' = branch_idx + 1
                       /\ UNCHANGED << pc, repo_idx, outcome, errors, exc, fatal_msg,
                                       exit_status >>

\* The loop of _pull_all_branches is exhausted: the update returns.
UpdateDone ==
    /\ pc = "update"
    /\ branch_idx > Len(all_branches)
    /\ Returned(queue[repo_idx].name, "Updated")
    /\ UNCHANGED << runner, config, fetch, fs, queue, all_branches, branch_idx, cmds,
                    dispatched >>

\* ---------------------------------------------------------------- interrupt
\* SIGINT while a repository is being synchronized: KeyboardInterrupt is
\* re-raised by _run_backups as IOError.
Interrupt ==
    /\ pc \in {"clone", "list", "update"}
    /\ sigint' = TRUE
    /\ KeyboardInterruptHandler
    /\ UNCHANGED << runner, remote, dry_run, token_file, local_repodir, fetch, fs, queue,
                    all_branches, branch_idx, cmds, dispatched, outcome >>

Next ==
    \/ GetToken
    \/ FetchPage
    \/ MakeContainer
    \/ Dispatch
    \/ RunClone
    \/ ListBranches
    \/ UpdateBranch
    \/ UpdateDone
    \/ Interrupt
    \/ Finish

Spec == Init /\ [][Next]_vars

\* ------------------------------------------------- the runner, step by step
\* One call of _run_system_cmd_nb followed tick by tick, together with the
\* child it starts.  The child runs a script of writes, each a line to stdout
\* or to stderr; a write blocks while the pipe it goes to is full; the child
\* exits when its script is done, and its exit closes both pipes.
MaxWrites == 3     \* the child writes at most this many lines
PipeCap == 1       \* lines a pipe holds before a write to it blocks

ErrLine == <<"f", "a", "t", "a", "l", "\n">>

Writes ==
    { [stream |-> "stdout", line |-> l] : l \in {HeadLine, MasterLine} }
    \cup { [stream |-> "stderr", line |-> ErrLine] }

Scripts == UNION { [1..k -> Writes] : k \in 0..MaxWrites }

app == << pc, config, fetch, fs, sync, exc, fatal_msg, exit_status >>

\* The calls followed: `git branch -r` in 'return' mode from
\* _pull_all_branches (with or without dry_run), and a command in 'log' mode.
RunnerInit ==
    /\ remote = Records
    /\ stdoutctl \in {"log", "return"}
    /\ dry_run \in (IF stdoutctl = "return" THEN BOOLEAN ELSE {FALSE})
    /\ pc = IF stdoutctl = "return" THEN "list" ELSE "clone"
    /\ token_file = [exists |-> TRUE, dir_mode |-> 448, file_mode |-> 256,
                     readable |-> TRUE]
    /\ local_repodir = <<1>>
    /\ dirs = IF stdoutctl = "return" THEN {Root, <<1>>, <<1, 1>>} ELSE {Root, <<1>>}
    /\ cwd = IF stdoutctl = "return" THEN <<1, 1>> ELSE <<1>>
    /\ page_number = 2
    /\ requests = << Request(1, Response(FALSE, 200, "array", << Record(1, 0) >>)),
                     Request(2, Response(FALSE, 200, "array", <<>>)) >>
    /\ pages = <<>>
    /\ repos_all = <<>>
    /\ queue = << Record(1, 0) >>
    /\ repo_idx = 1
    /\ all_branches = <<>>
    /\ branch_idx = 1
    /\ cmds = <<>>
    /\ dispatched = <<1>>
    /\ outcome = [n \in AllNames |-> "Initial"]
    /\ errors = <<>>
    /\ sigint = FALSE
    /\ exc = "none"
    /\ fatal_msg = "none"
    /\ exit_status = 0
    /\ rpc = "call"
    /\ child \in [script : Scripts, next : {1}, exited : {FALSE}, returncode : {0}]
    /\ stdout_pipe = <<>>
    /\ stderr_pipe = <<>>
    /\ rtn_lines = <<>>
    /\ rtn = [kind |-> "unset", lines |-> <<>>]

\* file.readline() on a non-blocking pipe: the next line; '' at end of file
\* (pipe empty, write end closed); IOError when no data is available.
readline(pipe, closed) ==
    IF pipe # <<>> THEN [raised |-> FALSE, line |-> Head(pipe), rest |-> Tail(pipe)]
    ELSE IF closed THEN [raised |-> FALSE, line |-> <<>>, rest |-> pipe]
    ELSE [raised |-> TRUE, line |-> <<>>, rest |-> pipe]

\* Lines 297-317: log the command; in dry-run return (None); otherwise start
\* the child with both pipes non-blocking.
RunnerStart ==
    /\ rpc = "call"
    /\ UNCHANGED << app, stdoutctl, child, stdout_pipe, stderr_pipe >>
    /\ rtn_lines' = <<>>
    /\ IF dry_run
       THEN /\ rpc' = "returned"
            /\ rtn' = [kind |-> "None", lines |-> <<>>]
       ELSE /\ \E popen \in BOOLEAN : rpc' = IF popen THEN "poll" ELSE "raised"
            /\ UNCHANGED rtn

\* Line 320 and lines 340-342: the test of the while loop; once the child has
\* exited, log the return code and return.
RunnerPoll ==
    /\ rpc = "poll"
    /\ UNCHANGED << app, stdoutctl, child, stdout_pipe, stderr_pipe, rtn_lines >>
    /\ IF child.exited
       THEN /\ rpc' = "returned"
            /\ rtn' = IF stdoutctl = "log" THEN [kind |-> "None", lines |-> <<>>]
                      ELSE [kind |-> "list", lines |-> rtn_lines]
       ELSE /\ rpc' = "read_out"
            /\ UNCHANGED rtn

\* Lines 321-329: one readline() of stdout.
ReadStdout ==
    /\ rpc = "read_out"
    /\ UNCHANGED << app, stdoutctl, child, stderr_pipe, rtn >>
    /\ LET r == readline(stdout_pipe, child.exited) IN
       /\ stdout_pipe' = r.rest
       /\ rtn_lines' = IF ~r.raised /\ stdoutctl = "return"
                       THEN Append(rtn_lines, rstrip(r.line)) ELSE rtn_lines
    /\ rpc' = "read_err"

\* Lines 331-338: one readline() of stderr, then sleep.
ReadStderr_Skip ==
    /\ rpc = "read_err"
    /\ UNCHANGED << app, stdoutctl, child, stdout_pipe, stderr_pipe, rtn_lines, rtn >>
    /\ rpc' = "poll"

ReadStderr ==
    /\ rpc = "read_err"
    /\ UNCHANGED << app, stdoutctl, child, stdout_pipe, rtn_lines, rtn >>
    /\ stderr_pipe' = readline(stderr_pipe, child.exited).rest
    /\ rpc' = "poll"

\* The child is at a write to a full pipe.
ChildBlocked ==
    /\ rpc \in {"poll", "read_out", "read_err"}
    /\ ~child.exited
    /\ child.next <= Len(child.script)
    /\ LET w == child.script[child.next] IN
       Len(IF w.stream = "stdout" THEN stdout_pipe ELSE stderr_pipe) >= PipeCap

\* The child writes the next line of its script.
ChildWrite ==
    /\ rpc \in {"poll", "read_out", "read_err"}
    /\ ~child.exited
    /\ child.next <= Len(child.script)
    /\ ~ChildBlocked
    /\ LET w == child.script[child.next] IN
       IF w.stream = "stdout"
       THEN stdout_pipe' = Append(stdout_pipe, w.line) /\ UNCHANGED stderr_pipe
       ELSE stderr_pipe' = Append(stderr_pipe, w.line) /\ UNCHANGED stdout_pipe
    /\ child' = [child EXCEPT !.next = @ + 1]
    /\ UNCHANGED << app, rpc, stdoutctl, rtn_lines, rtn >>

\* The child exits.
ChildExit ==
    /\ rpc \in {"poll", "read_out", "read_err"}
    /\ ~child.exited
    /\ child.next > Len(child.script)
    /\ \E rc \in ReturnCodes : child' = [child EXCEPT !.exited = TRUE, !.returncode = rc]
    /\ UNCHANGED << app, rpc, stdoutctl, stdout_pipe, stderr_pipe, rtn_lines, rtn >>

RunnerStep == RunnerStart \/ RunnerPoll \/ ReadStdout \/ ReadStderr
ChildStep == ChildWrite \/ ChildExit

RunnerNext ==
    \/ RunnerStart
    \/ RunnerPoll
    \/ ReadStdout
    \/ ReadStderr
    \/ ChildWrite
    \/ ChildExit

\* The polling loop sleeps 10 ms and goes on, so the runner keeps taking
\* steps; the operating system keeps running a child that is not blocked.
RunnerSpec ==
    RunnerInit /\ [][RunnerNext]_vars /\ WF_vars(RunnerStep) /\ WF_vars(ChildStep)

\* ------------------------------------------------ a remote with hostile names
\* Runs against a remote whose records include short names of the form
\* "../<n>", with a usable credential and the container directory <<0>>; the
\* directories <<n>> next to the container may exist.
TraversalDirs ==
    { {Root, <<0>>} \cup { <<0, n>> : n \in present } \cup { <<n>> : n \in outside } :
      present \in SUBSET Names, outside \in SUBSET Names }

TraversalInit ==
    /\ pc = "start"
    /\ remote = { Record(n, 0) : n \in Names } \cup HostileRecords
    /\ dry_run = FALSE
    /\ token_file = [exists |-> TRUE, dir_mode |-> 448, file_mode |-> 256,
                     readable |-> TRUE]
    /\ local_repodir = <<0>>
    /\ dirs \in TraversalDirs
    /\ cwd = Root
    /\ page_number = 1
    /\ requests = <<>>
    /\ pages = <<>>
    /\ repos_all = <<>>
    /\ queue = <<>>
    /\ repo_idx = 1
    /\ all_branches = <<>>
    /\ branch_idx = 1
    /\ cmds = <<>>
    /\ dispatched = <<>>
    /\ outcome = [n \in AllNames |-> "Initial"]
    /\ errors = <<>>
    /\ sigint = FALSE
    /\ exc = "none"
    /\ fatal_msg = "none"
    /\ exit_status = 0
    /\ NoCall

TraversalSpec == TraversalInit /\ [][Next]_vars

\* ================================================================ properties
Range(s) == { s[i] : i \in 1..Len(s) }
NamesOf(q) == [i \in 1..Len(q) |-> q[i].name]
Count(s, x) == Cardinality({ i \in 1..Len(s) : s[i] = x })
IsPermutation(a, b) ==
    /\ Len(a) = Len(b)
    /\ \A x \in Range(a) \cup Range(b) : Count(a, x) = Count(b, x)

RECURSIVE Flatten(_)
Flatten(ps) ==
    IF ps = <<>> THEN <<>> ELSE Head(ps).page \o Flatten(Tail(ps))

FailedNames == { n \in Names : outcome[n] = "Failed" }
RepoPath(n) == local_repodir \o <<n>>

\* Some page request of the catalog fetch failed: transport failure, non-200
\* status, or a body that is not a JSON array.
CatalogFailed ==
    \E i \in 1..Len(requests) :
        requests[i].transport \/ requests[i].status # 200 \/ requests[i].json # "array"

\* The credential file is missing, or it or its parent directory has a
\* group/other permission bit set.
BadCredential ==
    \/ ~token_file.exists
    \/ token_file.dir_mode % 64 # 0
    \/ token_file.file_mode % 64 # 0

\* The repository the loop handled last, once it is back at the loop head.
LastName == queue[repo_idx - 1].name

\* C1 - Failure isolation: the sorted list the loop visits is a permutation of
\* the catalog; a run that is not aborted by a fatal condition dispatches every
\* repository of it exactly once, logs exactly the failing repositories, and a
\* repository that raised leaves the loop at the next repository; an update
\* always starts in the repository's own directory.
FailureIsolation ==
    [][ /\ (pc = "backups" /\ pc' = "loop") => IsPermutation(queue', repos_all)
        /\ (pc' = "exit" /\ exc' = "none") =>
              /\ dispatched' = NamesOf(queue')
              /\ Len(errors') = Cardinality({ n \in Names : outcome'[n] = "Failed" })
              /\ Range(errors') = { n \in Names : outcome'[n] = "Failed" }
        /\ (pc \in {"loop", "clone", "list", "update"} /\ Len(errors') > Len(errors)) =>
              /\ pc' = "loop"
              /\ repo_idx' = repo_idx + 1
        /\ pc' = "list" => cwd' = local_repodir \o <<queue'[repo_idx'].name>>
      ]_vars

\* C1 witness: the first repository failed, the one after it was updated.
FailureIsolationWitness ==
    /\ pc = "exit"
    /\ exc = "none"
    /\ Len(queue) = 2
    /\ outcome[queue[1].name] = "Failed"
    /\ outcome[queue[2].name] = "Updated"
    /\ errors = <<queue[1].name>>

\* C2 - Dry-run purity: with dry_run set no step of the run changes the set of
\* existing directories and no runner call starts a child process.
DryRunPurity ==
    [][ dry_run => /\ dirs' = dirs
                   /\ \A i \in 1..Len(cmds') : ~cmds'[i].started ]_vars

\* C3 - Pagination exhaustiveness: when the remote answered k non-empty pages
\* and then an empty one, all with status 200, _get_org_repos returns the
\* pages' records in page order, each exactly once and nothing else.
PaginationExhaustive ==
    (pc = "backups" /\ ~CatalogFailed) =>
        /\ repos_all = Flatten(pages)
        /\ \A i \in 1..Len(pages) : \A j \in 1..Len(pages[i].page) :
              Count(repos_all, pages[i].page[j]) = 1
        /\ \A x \in Range(repos_all) :
              \E i \in 1..Len(pages) : x \in Range(pages[i].page)

\* C3 witness: two non-empty pages and the empty one were fetched.
PaginationExhaustiveWitness ==
    /\ pc = "backups"
    /\ ~CatalogFailed
    /\ Len(pages) = 3
    /\ Len(pages[1].page) = PerPage
    /\ Len(repos_all) = 2 * PerPage

\* C4 - No partial backup: once a page request has failed, no repository is
\* ever dispatched to the Synchronizer and the run exits with non-zero status.
NoPartialBackup ==
    CatalogFailed =>
        /\ dispatched = <<>>
        /\ pc \notin {"clone", "list", "update"}
        /\ pc = "exit" => exit_status # 0

\* C5 - Deterministic ordering: the repositories are dispatched in ascending
\* order of their name.
AscendingByName ==
    \A i, j \in 1..Len(dispatched) : i < j => dispatched[i] < dispatched[j]

\* C6 - Exit status asymmetry: the run exits non-zero only for a fatal
\* condition (credential unusable, catalog fetch failed, container directory
\* missing, operator interrupt); otherwise it exits zero however many
\* repositories failed.
ExitStatusAsymmetry ==
    pc = "exit" =>
        (exit_status # 0 <=>
            \/ BadCredential \/ ~token_file.readable
            \/ CatalogFailed
            \/ local_repodir \notin dirs
            \/ sigint)

\* C6 witness: a run in which every repository failed exited with zero.
ExitStatusAsymmetryWitness ==
    /\ pc = "exit"
    /\ exit_status = 0
    /\ Len(queue) = 2
    /\ FailedNames = Range(NamesOf(queue))

\* C7 - Credential permission gate: with a missing credential file, or one
\* whose mode or whose parent's mode has a group/other bit, no request is
\* issued and no repository is dispatched, and the run exits non-zero.
CredentialGate ==
    BadCredential =>
        /\ requests = <<>>
        /\ dispatched = <<>>
        /\ pc \in {"start", "exit"}
        /\ pc = "exit" => (exit_status # 0 /\ exc = "IOError")

\* C7 witness: a group-readable credential file in an owner-only directory
\* ended the run.
CredentialGateWitness ==
    /\ pc = "exit"
    /\ token_file.exists
    /\ token_file.dir_mode = 448
    /\ token_file.file_mode = 288
    /\ exit_status = 1

\* C8 - Operator cancellation: after an interrupt during a synchronization the
\* run has exited with non-zero status, the interrupted repository is not
\* logged as a failure and nothing after it was dispatched.
OperatorCancellation ==
    sigint =>
        /\ pc = "exit"
        /\ exit_status # 0
        /\ queue[repo_idx].name \notin Range(errors)
        /\ dispatched = NamesOf(SubSeq(queue, 1, repo_idx))

\* C8 witness: the interrupt hit the first of two repositories.
OperatorCancellationWitness ==
    /\ sigint
    /\ pc = "exit"
    /\ Len(queue) = 2
    /\ repo_idx = 1

\* C9 - Clone path: with dry-run off, when the synchronization of a locally
\* absent repository is over and no runner call failed, exactly the clone of
\* its full name was run in the container directory, no failure was logged
\* and the repository's path exists.
ClonePath ==
    (/\ pc = "loop"
     /\ repo_idx > 1
     /\ ~dry_run
     /\ \A i \in 1..Len(cmds) :
           cmds[i].op = "clone" /\ cmds[i].started /\ cmds[i].returncode = 0)
    =>
        /\ Len(cmds) = 1
        /\ cmds[1].arg = <<queue[repo_idx - 1].full_name>>
        /\ cmds[1].cwd = local_repodir
        /\ outcome[LastName] = "Cloned"
        /\ LastName \notin Range(errors)
        /\ RepoPath(LastName) \in dirs

\* The entry of `git branch -r` for the symbolic HEAD.
IsHeadEntry(line) == Contains(HeadPattern, line)

RECURSIVE NonHead(_)
NonHead(lines) ==
    IF lines = <<>> THEN <<>>
    ELSE IF IsHeadEntry(Head(lines)) THEN NonHead(Tail(lines))
    ELSE <<Head(lines)>> \o NonHead(Tail(lines))

UpdateArgs == [i \in 1..(Len(cmds) - 1) |-> cmds[i + 1].arg]

\* C10 - Branch selection: when an update has returned, the update commands
\* issued are, in order, one per reported line that is not the HEAD entry.
BranchSelection ==
    (pc = "loop" /\ repo_idx > 1 /\ outcome[LastName] = "Updated"
        /\ cmds # <<>>)
    => UpdateArgs = NonHead(all_branches)

\* C11 - Step failure detection: when the synchronization of a repository is
\* over and one of its commands exited with a non-zero status, the repository
\* ended in Failed and was logged as a failure.
StepFailureDetection ==
    (/\ pc = "loop"
     /\ repo_idx > 1
     /\ \E i \in 1..Len(cmds) : cmds[i].started /\ cmds[i].returncode # 0)
    =>
        /\ outcome[LastName] = "Failed"
        /\ LastName \in Range(errors)

\* The lines the child's script writes to stdout, in order.
IsStdoutWrite(w) == w.stream = "stdout"
ScriptStdout ==
    LET ws == SelectSeq(child.script, IsStdoutWrite)
    IN  [i \in 1..Len(ws) |-> ws[i].line]

\* C12 - Capture exactness: what a call in 'return' mode returns is exactly the
\* sequence of lines the child wrote to stdout (each without its line end).
CaptureExactness ==
    (rpc = "returned" /\ rtn.kind = "list") =>
        rtn.lines = [i \in 1..Len(ScriptStdout) |-> rstrip(ScriptStdout[i])]

\* What a call in 'return' mode returns is one of RunnerOutcomes.
CaptureWithinOutcomes ==
    (rpc = "returned" /\ rtn.kind = "list") => rtn.lines \in RunnerOutcomes(ScriptStdout)

\* A tick that found no data on a stream.
NoDataTick ==
    \/ rpc = "read_out" /\ readline(stdout_pipe, child.exited).raised
    \/ rpc = "read_err" /\ readline(stderr_pipe, child.exited).raised

\* C13 - No pipe deadlock: a child blocked on a full pipe is unblocked again,
\* a call that started a child returns, and a tick that finds no data on a
\* stream goes on to the next read of the loop.
NoPipeDeadlock ==
    /\ ChildBlocked ~> ~ChildBlocked
    /\ (rpc = "poll") ~> (rpc = "returned")
    /\ [][(NoDataTick /\ rpc' # rpc) =>
              rpc' = IF rpc = "read_out" THEN "read_err" ELSE "poll"]_vars

\* C13 witness: the child is blocked writing to a full stderr pipe while the
\* runner is about to read stdout, which has no data.
NoPipeDeadlockWitness ==
    /\ ChildBlocked
    /\ rpc = "read_out"
    /\ child.script[child.next].stream = "stderr"
    /\ stdout_pipe = <<>>

\* C14 - Catalog error classification: once a page request has failed
\* (transport failure, non-200 status, or a body that is not a JSON array) the
\* run has ended with GBError, which main logged before exiting with status 1.
CatalogErrorClassification ==
    CatalogFailed =>
        /\ pc = "exit"
        /\ exc = "GBError"
        /\ fatal_msg = "error getting repos list from github"
        /\ exit_status = 1

\* C15 - Configuration failures precede network work: a run that ended because
\* the container directory could not be created issued no request to the
\* remote and dispatched no repository.
ConfigBeforeNetwork ==
    (pc = "exit" /\ fatal_msg = "cannot create local_repodir") =>
        /\ requests = <<>>
        /\ dispatched = <<>>

\* C16 - Dry-run simulation completes: with dry_run set, a synchronization
\* that logged a command has finished without a failure being raised or
\* logged for its repository.
DryRunCompletes ==
    (dry_run /\ pc = "loop" /\ repo_idx > 1 /\ cmds # <<>>) =>
        /\ outcome[LastName] # "Failed"
        /\ LastName \notin Range(errors)

\* C17 - Per-branch update always pulls: every update command that was run
\* for a line other than the HEAD entry performed the pull.
UpdateAlwaysPulls ==
    \A i \in 1..Len(cmds) :
        (cmds[i].op = "branch && pull" /\ cmds[i].started /\ ~IsHeadEntry(cmds[i].arg))
        => cmds[i].pulled

\* The answer to the last request made the call raise.
LastRequestRaised(reqs) ==
    LET r == reqs[Len(reqs)]
    IN  r.transport \/ r.json = "garbage" \/ r.status # 200

PerRepoIndependence ==
    [][ (/\ pc = "loop"
         /\ dispatched' # dispatched
         /\ RepoPath(queue[repo_idx].name) \notin dirs)
        =>
        LET first == Resolve(Root, basename(RepoPath(queue[repo_idx].name)))
        IN  /\ (pc' = "clone") <=> (first \in dirs)
            /\ pc' = "clone" => cwd' = first
      ]_vars

\* A direct child of the container directory.
IsChild(path) ==
    /\ Len(path) = Len(local_repodir) + 1
    /\ SubSeq(path, 1, Len(local_repodir)) = local_repodir

\* C20 - Path containment: no record with a hostile short name is dispatched,
\* the path tested for every dispatched repository is a direct child of the
\* container directory, and so is the directory an update is run in.
PathContainment ==
    /\ \A i \in 1..Len(dispatched) :
          /\ dispatched[i] \notin HostileNames
          /\ IsChild(repo_path_of(local_repodir, dispatched[i]))
    /\ pc \in {"list", "update"} => IsChild(cwd)

====
